---- MODULE Spec2Model ----
(***************************************************************************)
(* Model of the census field-specification engine of hackathon_utils.py:   *)
(* format_categories_dict, get_census_fields and                           *)
(* join_census_and_add_densities.                                          *)
(*                                                                         *)
(* Python values are modelled as follows.                                  *)
(*   str            a TLA+ string                                          *)
(*   int (a year)   an integer                                             *)
(*   x or [x, ...]  a record [kind, v]: kind is "none", "scalar" or "list" *)
(*                  and v the sequence of elements (one for a scalar)      *)
(*   dict           a sequence of [k, v] entries with distinct keys, in    *)
(*                  insertion order                                        *)
(*   DataFrame      a record [cols, rows]: cols the sequence of column     *)
(*                  names, rows a set of functions from column to cell     *)
(*   cell           a string; arithmetic is kept symbolic ("(x+y)",        *)
(*                  "(x/y)"), a missing cell is "NaN"                       *)
(***************************************************************************)
EXTENDS Integers, Sequences, FiniteSets, TLC

(***************************************************************************)
(* Bounds of the model.                                                    *)
(***************************************************************************)
\* geographic units are 1..MaxGeo
MaxGeo == 2
\* direct calls of format_categories_dict the caller makes on its object
MaxCalls == 2

(***************************************************************************)
(* Strings.                                                                *)
(***************************************************************************)
StartsWith(s, p) == Len(s) >= Len(p) /\ SubSeq(s, 1, Len(p)) = p

EndsWith(s, p) == Len(s) >= Len(p) /\ SubSeq(s, Len(s) - Len(p) + 1, Len(s)) = p

\* the characters of a string, as iterating over a Python str yields them
Chars(s) == {SubSeq(s, i, i) : i \in 1..Len(s)}

\* source.split('_')[-1]: the text after the last underscore
SplitLast(s) ==
    LET us == {i \in 1..Len(s) : SubSeq(s, i, i) = "_"}
        last == IF us = {} THEN 0 ELSE CHOOSE i \in us : \A j \in us : j <= i
    IN SubSeq(s, last + 1, Len(s))

(***************************************************************************)
(* Python scalars, lists and dicts.                                        *)
(***************************************************************************)
None == [kind |-> "none", v |-> <<>>]
Scalar(x) == [kind |-> "scalar", v |-> <<x>>]
List(s) == [kind |-> "list", v |-> s]

Range(s) == {s[i] : i \in 1..Len(s)}

to_list(x) == IF x.kind = "list" THEN x ELSE List(x.v)

Keys(d) == {d[i].k : i \in 1..Len(d)}

DictGet(d, key) == d[CHOOSE i \in 1..Len(d) : d[i].k = key].v

\* d[key] = val: an existing key keeps its position
DictSet(d, key, val) ==
    IF key \in Keys(d)
    THEN [i \in 1..Len(d) |-> IF d[i].k = key THEN [k |-> key, v |-> val] ELSE d[i]]
    ELSE Append(d, [k |-> key, v |-> val])

(***************************************************************************)
(* Program constants.                                                      *)
(***************************************************************************)
CENSUS_LATEST_YEARS ==
    << [k |-> "dec/dhc", v |-> 2020],
       [k |-> "acs/acs5", v |-> 2023],
       [k |-> "acs/acs1", v |-> 2024] >>

DENSITY_ONLY == "DENSITY_ONLY"
NO_DENSITY_OR_RATIO == "NO_DENSITY_OR_RATIO"
Sentinels == {DENSITY_ONLY, NO_DENSITY_OR_RATIO}

(***************************************************************************)
(* format_categories_dict.                                                 *)
(***************************************************************************)
\* an unrecognized source taken for the 5-year survey
source_to_api_dir_default(source) ==
    IF source \in {"acs1"} THEN "acs/acs1"
    ELSE IF StartsWith(source, "dec")
    THEN "dec/" \o (IF "_" \in Chars(source) THEN SplitLast(source) ELSE "dhc")
    ELSE IF source = "dhc"
    THEN "dec/dhc"
    ELSE "acs/acs5"

source_to_api_dir(source) ==
    IF StartsWith(source, "acs")
    THEN (IF source \in {"acs1"} THEN "acs/acs1" ELSE "acs/acs5")
    ELSE IF StartsWith(source, "dec")
    THEN "dec/" \o (IF "_" \in Chars(source) THEN SplitLast(source) ELSE "dhc")
    ELSE IF source = "dhc"
    THEN "dec/dhc"
    ELSE source    \* with a warning on stderr

\* format_years raises KeyError when the years are absent and the source has
\* no entry in CENSUS_LATEST_YEARS
format_years_raises(source, years) ==
    years.kind = "none" /\ source \notin Keys(CENSUS_LATEST_YEARS)

format_years(source, years) ==
    IF years.kind = "none"
    THEN to_list(Scalar(DictGet(CENSUS_LATEST_YEARS, source)))
    ELSE to_list(years)

\* First loop: source and years of each category, in order.  A KeyError
\* leaves the categories before it rewritten and the failing one with its
\* source rewritten.
RECURSIVE FormatSourceYears(_, _)
FormatSourceYears(cats, i) ==
    IF i > Len(cats) THEN [err |-> FALSE, cats |-> cats]
    ELSE LET src == source_to_api_dir(cats[i].source)
             withSrc == [cats EXCEPT ![i].source = src]
         IN IF format_years_raises(src, cats[i].years)
            THEN [err |-> TRUE, cats |-> withSrc]
            ELSE FormatSourceYears(
                     [withSrc EXCEPT ![i].years = format_years(src, cats[i].years)],
                     i + 1)

\* years_by_source[source]: the set of years of the categories of the source
YearsBySource(cats, source) ==
    UNION {Range(cats[i].years.v) : i \in {j \in 1..Len(cats) : cats[j].source = source}}

\* the decision taken for each category on its own years
YearsAsPrefixPerCategory(cats) ==
    \E i \in 1..Len(cats) : Cardinality(Range(cats[i].years.v)) > 1

YearsAsPrefix(cats) ==
    \E i \in 1..Len(cats) : Cardinality(YearsBySource(cats, cats[i].source)) > 1

\* `years` is the variable of the enclosing function: the years of the last
\* category the first loop handled, never None
get_field_name(years_as_prefix, years, cat_name, field_name, year) ==
    IF years_as_prefix /\ years.kind # "none"
    THEN ToString(year) \o "_" \o cat_name \o "_" \o field_name
    ELSE cat_name \o "_" \o field_name

\* Inner loops of the second loop: the fields of one category, each with each
\* year of the category.  acc is [fields, fields_universe].
RECURSIVE FormatFields(_, _, _, _, _, _)
FormatFields(cat, prefix, years, fi, yi, acc) ==
    IF fi > Len(cat.fields) THEN acc
    ELSE IF yi > Len(cat.years.v)
    THEN FormatFields(cat, prefix, years, fi + 1, 1, acc)
    ELSE LET field_name == cat.fields[fi].k
             new_field_name ==
                 get_field_name(prefix, years, cat.name, field_name, cat.years.v[yi])
             f2 == DictSet(acc.fields, new_field_name, cat.fields[fi].v)
             u2 == IF field_name \in Keys(cat.fields_universe)
                   THEN DictSet(acc.fields_universe, new_field_name,
                                DictGet(cat.fields_universe, field_name))
                   ELSE acc.fields_universe
         IN FormatFields(cat, prefix, years, fi, yi + 1,
                         [fields |-> f2, fields_universe |-> u2])

FormatCategory(cat, prefix, years) ==
    LET u0 == IF "default" \in Keys(cat.fields_universe)
              THEN << [k |-> "default", v |-> DictGet(cat.fields_universe, "default")] >>
              ELSE << >>
        acc == FormatFields(cat, prefix, years, 1, 1,
                            [fields |-> << >>, fields_universe |-> u0])
    IN [cat EXCEPT !.fields = acc.fields, !.fields_universe = acc.fields_universe]

FormatFieldNames(cats) ==
    LET prefix == YearsAsPrefix(cats)
        years == IF Len(cats) = 0 THEN None ELSE cats[Len(cats)].years
    IN [i \in 1..Len(cats) |-> FormatCategory(cats[i], prefix, years)]

\* The whole function on the object `categories`.  err: a KeyError was
\* raised; ret: the value returned; obj: the object it worked on, as the
\* function leaves it (the caller's own object when inplace).
FormatWorkingCopy(categories) ==
    LET r == FormatSourceYears(categories, 1)
    IN IF r.err THEN [err |-> TRUE, obj |-> r.cats]
       ELSE [err |-> FALSE, obj |-> FormatFieldNames(r.cats)]

\* without the deep copy
format_categories_dict_no_copy(categories, inplace) ==
    LET w == FormatWorkingCopy(categories)
    IN [err |-> w.err, ret |-> w.obj, arg |-> w.obj, alias |-> TRUE]

\* alias: the object returned is the caller's object
format_categories_dict(categories, inplace) ==
    LET w == FormatWorkingCopy(categories)
    IN [err |-> w.err,
        ret |-> w.obj,
        arg |-> IF inplace THEN w.obj ELSE categories,
        alias |-> inplace]

(***************************************************************************)
(* get_census_fields, steps (1) to (3): the resolved fields and the codes  *)
(* to request of each (source, year) pair.                                 *)
(***************************************************************************)
RECURSIVE Flatten(_)
Flatten(ss) == IF Len(ss) = 0 THEN << >> ELSE Head(ss) \o Flatten(Tail(ss))

\* cat_dict['fields_universe'].get(field_name, cat_dict['fields_universe']['default']):
\* the default is looked up before .get is called, so a category without
\* 'default' raises KeyError at its first field
UniverseLookupRaises(cat) == "default" \notin Keys(cat.fields_universe)

\* the default entry taken before the entry of the field
UniverseLookupDefaultFirst(cat, field_name) ==
    IF "default" \in Keys(cat.fields_universe)
    THEN DictGet(cat.fields_universe, "default")
    ELSE DictGet(cat.fields_universe, field_name)

UniverseLookup(cat, field_name) ==
    IF field_name \in Keys(cat.fields_universe)
    THEN DictGet(cat.fields_universe, field_name)
    ELSE DictGet(cat.fields_universe, "default")

\* (1) raises KeyError
DecomposeRaises(cats) ==
    \E i \in 1..Len(cats) :
        /\ Len(cats[i].fields) > 0
        /\ Len(cats[i].years.v) > 0
        /\ UniverseLookupRaises(cats[i])

\* the years a field of the category is decomposed into
FieldYears(cat) == cat.years.v

\* (1) one entry per category, per field of the category, per year of the
\* category
DecomposeCategory(cat) ==
    Flatten([fi \in 1..Len(cat.fields) |->
        LET years == FieldYears(cat)
        IN [yi \in 1..Len(years) |->
               [name |-> cat.fields[fi].k,
                source |-> cat.source,
                year |-> years[yi],
                sum_codes |-> cat.fields[fi].v,
                universe_code |-> UniverseLookup(cat, cat.fields[fi].k)]]])

Decompose(cats) == Flatten([i \in 1..Len(cats) |-> DecomposeCategory(cats[i])])

\* the letter appended to every code that is no sentinel
add_e_always(c) ==
    IF c \in Sentinels THEN c ELSE c \o "E"

\* (2)
add_e(c) ==
    IF c \in Sentinels THEN c
    ELSE IF EndsWith(c, "E") THEN c ELSE c \o "E"

AddSuffix(field) ==
    IF StartsWith(field.source, "acs")
    THEN LET codes == to_list(field.sum_codes).v
         IN [field EXCEPT
                !.sum_codes = List([i \in 1..Len(codes) |-> add_e(codes[i])]),
                !.universe_code = add_e(field.universe_code)]
    ELSE field

AddSuffixes(fs) == [i \in 1..Len(fs) |-> AddSuffix(fs[i])]

\* universe_code and universe_code not in [sentinels]
IsConcrete(universe_code) == universe_code # "" /\ universe_code \notin Sentinels

\* codes_set.update(sum_codes): the elements of a list, the characters of a str
UpdateCodes(sum_codes) ==
    IF sum_codes.kind = "list" THEN Range(sum_codes.v) ELSE Chars(sum_codes.v[1])

\* the codes one field adds to the set of its (source, year) pair
FieldCodes(field, add_place_names, level) ==
    UpdateCodes(field.sum_codes)
      \cup (IF IsConcrete(field.universe_code) THEN {field.universe_code} ELSE {})
      \cup (IF add_place_names /\ StartsWith(level, "place") THEN {"NAME"} ELSE {})

\* (3) codes_by_source_year, in the order the pairs are first met
RECURSIVE GatherCodes(_, _, _, _, _)
GatherCodes(fs, i, add_place_names, level, acc) ==
    IF i > Len(fs) THEN acc
    ELSE LET key == <<fs[i].source, fs[i].year>>
             old == IF key \in Keys(acc) THEN DictGet(acc, key) ELSE {}
         IN GatherCodes(fs, i + 1, add_place_names, level,
                        DictSet(acc, key, old \cup FieldCodes(fs[i], add_place_names, level)))

GEO_HIERARCHIES ==
    LET base == << [k |-> "block", v |-> <<"state", "county", "tract", "block">>],
                   [k |-> "blockgroup", v |-> <<"state", "county", "tract", "block group">>],
                   [k |-> "block group", v |-> <<"state", "county", "tract", "block group">>],
                   [k |-> "block_group", v |-> <<"state", "county", "tract", "block group">>],
                   [k |-> "tract", v |-> <<"state", "county", "tract">>],
                   [k |-> "place", v |-> <<"state", "place">>] >>
    IN base \o [i \in 1..Len(base) |-> [k |-> base[i].k \o "s", v |-> base[i].v]]

\* the request of one (source, year) pair
Request(key, all_fields, level, state_id) ==
    LET geo_hierarchy == DictGet(GEO_HIERARCHIES, level)
        n == Len(geo_hierarchy)
    IN [dataset |-> key[1],
        year |-> key[2],
        variables |-> all_fields,
        for |-> geo_hierarchy[n] \o ":*",
        in |-> [i \in 1..(n - 1) |->
                   IF geo_hierarchy[i] = "state"
                   THEN "state:" \o state_id
                   ELSE geo_hierarchy[i] \o ":*"]]

(***************************************************************************)
(* Tables.                                                                 *)
(***************************************************************************)
NaN == "NaN"

\* the row-wise sum of cells
RECURSIVE SumStr(_)
SumStr(cells) ==
    IF Len(cells) = 0 THEN "0"
    ELSE IF Len(cells) = 1 THEN cells[1]
    ELSE cells[1] \o "+" \o SumStr(Tail(cells))

Sum(cells) == IF Len(cells) > 1 THEN "(" \o SumStr(cells) \o ")" ELSE SumStr(cells)

\* a / b, undefined when an operand is
Div(a, b) == IF a = NaN \/ b = NaN THEN NaN ELSE a \o "/" \o b

\* the keys of a row
KeyOf(row, on) == [i \in 1..Len(on) |-> row[on[i]]]

\* left.merge(right, on=on, how='outer'): a column of both sides that is no
\* key is renamed with the suffixes _x and _y
MergeRaises(left, right, on) ==
    \E i \in 1..Len(on) : on[i] \notin Range(left.cols) \/ on[i] \notin Range(right.cols)

MergeHow(left, right, on, how) ==
    LET keys == Range(on)
        overlap == (Range(left.cols) \cap Range(right.cols)) \ keys
        LName(c) == IF c \in overlap THEN c \o "_x" ELSE c
        RName(c) == IF c \in overlap THEN c \o "_y" ELSE c
        NotKey(c) == c \notin keys
        rcols == SelectSeq(right.cols, NotKey)
        cols == [i \in 1..Len(left.cols) |-> LName(left.cols[i])]
                  \o [i \in 1..Len(rcols) |-> RName(rcols[i])]
        lset == Range(left.cols)
        rset == Range(rcols)
        Row(l, r, hasL, hasR) ==
            [c \in keys \cup {LName(x) : x \in lset} \cup {RName(x) : x \in rset} |->
                IF c \in keys THEN (IF hasL THEN l[c] ELSE r[c])
                ELSE IF \E x \in lset : LName(x) = c
                THEN (IF hasL THEN l[CHOOSE x \in lset : LName(x) = c] ELSE NaN)
                ELSE (IF hasR THEN r[CHOOSE x \in rset : RName(x) = c] ELSE NaN)]
        both == {Row(l, r, TRUE, TRUE) : <<l, r>> \in
                    {p \in left.rows \X right.rows : KeyOf(p[1], on) = KeyOf(p[2], on)}}
        lonly == {Row(l, l, TRUE, FALSE) : l \in
                    {x \in left.rows : \A r \in right.rows : KeyOf(x, on) # KeyOf(r, on)}}
        ronly == {Row(r, r, FALSE, TRUE) : r \in
                    {x \in right.rows : \A l \in left.rows : KeyOf(x, on) # KeyOf(l, on)}}
    IN [cols |-> cols,
        rows |-> IF how = "outer" THEN both \cup lonly \cup ronly ELSE both]

\* an inner join
MergeInner(left, right, on) == MergeHow(left, right, on, "inner")

Merge(left, right, on) == MergeHow(left, right, on, "outer")

\* df[columns]
SelectRaises(df, columns) == \E i \in 1..Len(columns) : columns[i] \notin Range(df.cols)

Select(df, columns) ==
    [cols |-> columns,
     rows |-> {[c \in Range(columns) |-> r[c]] : r \in df.rows}]

(***************************************************************************)
(* get_census_fields, steps (5) and (6): the computed fields of each pair  *)
(* and their merge.                                                        *)
(***************************************************************************)
add_fieldname(final_df_fields, field_name, prepend) ==
    IF field_name \in Range(final_df_fields) THEN final_df_fields
    ELSE IF prepend THEN <<field_name>> \o final_df_fields
    ELSE Append(final_df_fields, field_name)

\* A column of a working table is kept as the expression over the raw row of
\* the same index that the code assigns to it.
CopyCol(col) == [kind |-> "copy", codes |-> <<col>>, universe |-> ""]
SumCol(codes) == [kind |-> "sum", codes |-> codes, universe |-> ""]
RatioCol(codes, universe_code) == [kind |-> "ratio", codes |-> codes, universe |-> universe_code]

EvalCol(def, raw_row) ==
    LET cells == [i \in 1..Len(def.codes) |-> raw_row[def.codes[i]]]
    IN CASE def.kind = "copy" -> cells[1]
         [] def.kind = "sum" -> Sum(cells)
         [] def.kind = "ratio" -> Div(Sum(cells), raw_row[def.universe])

\* for col in ['NAME', 'GEOID']: copy the column once and put it in front
RECURSIVE AddBasic(_, _, _, _)
AddBasic(basic, raw, proc, final) ==
    IF Len(basic) = 0 THEN [proc |-> proc, final |-> final]
    ELSE LET col == Head(basic)
         IN IF col \in raw.cols /\ col \notin Keys(proc)
            THEN AddBasic(Tail(basic), raw, DictSet(proc, col, CopyCol(col)),
                          add_fieldname(final, col, TRUE))
            ELSE AddBasic(Tail(basic), raw, proc, final)

\* df_raw[field['sum_codes']].sum(axis=1) raises for a column that is missing
\* and for a str, which selects a Series (that has no axis 1) or nothing
SumRaises(field, raw) ==
    \/ field.sum_codes.kind # "list"
    \/ \E c \in Range(field.sum_codes.v) : c \notin raw.cols

HasRatio(field, compute_ratios) == compute_ratios /\ IsConcrete(field.universe_code)

\* the name of the ratio column of a field
RatioName(name) == name \o "_ratio"

\* acc is [err, final, procs]: final_df_fields and df_processed_by_source_year
RECURSIVE AggregateFields(_, _, _, _, _)
AggregateFields(fs, i, raws, compute_ratios, acc) ==
    IF i > Len(fs) \/ acc.err THEN acc
    ELSE LET field == fs[i]
             key == <<field.source, field.year>>
             final1 == add_fieldname(acc.final, field.name, FALSE)
             raw == DictGet(raws, key)
             proc0 == IF key \in Keys(acc.procs) THEN DictGet(acc.procs, key) ELSE << >>
             b == AddBasic(<<"NAME", "GEOID">>, raw, proc0, final1)
             proc1 == DictSet(b.proc, field.name, SumCol(field.sum_codes.v))
             ratio == HasRatio(field, compute_ratios)
             proc2 == IF ratio
                      THEN DictSet(proc1, RatioName(field.name),
                                   RatioCol(field.sum_codes.v, field.universe_code))
                      ELSE proc1
             final2 == IF ratio THEN add_fieldname(b.final, RatioName(field.name), FALSE)
                       ELSE b.final
         IN IF SumRaises(field, raw) \/ (ratio /\ field.universe_code \notin raw.cols)
            THEN [acc EXCEPT !.err = TRUE]
            ELSE AggregateFields(fs, i + 1, raws, compute_ratios,
                     [err |-> FALSE, final |-> final2,
                      procs |-> DictSet(acc.procs, key, proc2)])

\* the working table of one pair
ProcFrame(proc, raw) ==
    [cols |-> [i \in 1..Len(proc) |-> proc[i].k],
     rows |-> {[c \in Keys(proc) |-> EvalCol(DictGet(proc, c), r)] : r \in raw.rows}]

JoinOn(final_df_fields) ==
    IF "NAME" \in Range(final_df_fields) THEN <<"GEOID", "NAME">> ELSE <<"GEOID">>

\* df = df_proc if df is None else df.merge(df_proc, on=join_on, how='outer')
RECURSIVE MergeAll(_, _, _, _)
MergeAll(frames, i, on, acc) ==
    IF i > Len(frames) \/ acc.err THEN acc
    ELSE IF i = 1 THEN MergeAll(frames, 2, on, [err |-> FALSE, df |-> frames[1]])
    ELSE IF MergeRaises(acc.df, frames[i], on) THEN [acc EXCEPT !.err = TRUE]
    ELSE MergeAll(frames, i + 1, on, [err |-> FALSE, df |-> Merge(acc.df, frames[i], on)])

NoFrame == [cols |-> << >>, rows |-> {}]

\* (5) and (6): [err, final, on, df]
AggregateAndMerge(fs, raws, compute_ratios) ==
    LET a == AggregateFields(fs, 1, raws, compute_ratios,
                             [err |-> FALSE, final |-> << >>, procs |-> << >>])
        frames == [i \in 1..Len(a.procs) |->
                      ProcFrame(a.procs[i].v, DictGet(raws, a.procs[i].k))]
        on == JoinOn(a.final)
        m == MergeAll(frames, 1, on, [err |-> FALSE, df |-> NoFrame])
    IN IF a.err THEN [err |-> TRUE, final |-> a.final, on |-> << >>, df |-> NoFrame]
       ELSE IF m.err \/ Len(frames) = 0 \/ SelectRaises(m.df, a.final)
       THEN [err |-> TRUE, final |-> a.final, on |-> on, df |-> NoFrame]
       ELSE [err |-> FALSE, final |-> a.final, on |-> on, df |-> Select(m.df, a.final)]

(***************************************************************************)
(* join_census_and_add_densities.                                          *)
(***************************************************************************)
GeoJoinOn(df_geo, df_census) ==
    IF "NAME" \in Range(df_census.cols) /\ "NAME" \in Range(df_geo.cols)
    THEN <<"GEOID", "NAME">> ELSE <<"GEOID">>

\* if universe_code and universe_code != 'NO_DENSITY_OR_RATIO'
HasDensity(universe_code) == universe_code # "" /\ universe_code # NO_DENSITY_OR_RATIO

DensityName(col) == col \o "_density"

\* the fields of the formatted categories that get a density column
DensityFieldsOf(cats) ==
    UNION {{cats[i].fields[j].k : j \in
               {f \in 1..Len(cats[i].fields) :
                   HasDensity(UniverseLookup(cats[i], cats[i].fields[f].k))}}
           : i \in 1..Len(cats)}

DensityFieldsRaises(categories) ==
    LET f == format_categories_dict(categories, FALSE)
    IN f.err \/ \E i \in 1..Len(f.ret) :
                   Len(f.ret[i].fields) > 0 /\ UniverseLookupRaises(f.ret[i])

Area(geometry) == IF geometry = NaN THEN NaN ELSE "area(" \o geometry \o ")"

RECURSIVE DensityCols(_, _)
DensityCols(cols, density_fields) ==
    IF Len(cols) = 0 THEN << >>
    ELSE (IF Head(cols) \in density_fields
          THEN <<Head(cols), DensityName(Head(cols))>> ELSE <<Head(cols)>>)
         \o DensityCols(Tail(cols), density_fields)

\* density_fields is None and categories is given
JoinDensities(df_geo, df_census, categories) ==
    LET df_geodata == Merge(df_geo, df_census, GeoJoinOn(df_geo, df_census))
        density_fields ==
            DensityFieldsOf(format_categories_dict(categories, FALSE).ret)
              \cap Range(df_geodata.cols)
        final_df_fields == DensityCols(df_geodata.cols, density_fields)
    IN [cols |-> final_df_fields,
        rows |-> {[c \in Range(final_df_fields) |->
                      IF c \in Range(df_geodata.cols) /\ ~(\E d \in density_fields : DensityName(d) = c)
                      THEN r[c]
                      ELSE LET d == CHOOSE d \in density_fields : DensityName(d) = c
                           IN Div(r[d], Area(r["geometry"]))]
                  : r \in df_geodata.rows}]

(***************************************************************************)
(* The configurations, arguments and collaborator answers explored.        *)
(***************************************************************************)
Entry(key, val) == [k |-> key, v |-> val]

Category(name, source, years, fu) ==
    [name |-> name, source |-> source, years |-> years,
     fields |-> fu.fields, fields_universe |-> fu.fields_universe]

FieldsAndUniverse(fields, fields_universe) ==
    [fields |-> fields, fields_universe |-> fields_universe]

\* the first category
FirstFields ==
    { FieldsAndUniverse(<<Entry("c", List(<<"B1">>))>>,
                        <<Entry("default", "U1")>>),
      FieldsAndUniverse(<<Entry("c", List(<<"B1", "B2E">>)), Entry("b_c", List(<<"B1">>))>>,
                        <<Entry("default", DENSITY_ONLY), Entry("b_c", "U1")>>),
      FieldsAndUniverse(<<Entry("c", List(<<"B1">>)), Entry("b_c", List(<<"B2E">>))>>,
                        <<Entry("default", "U1"), Entry("b_c", NO_DENSITY_OR_RATIO)>>),
      FieldsAndUniverse(<<Entry("c", Scalar("B1"))>>,
                        <<Entry("default", "U1")>>),
      FieldsAndUniverse(<<Entry("c", List(<<"B1">>))>>,
                        <<Entry("c", "U1")>>),
      FieldsAndUniverse(<<Entry("c", List(<<"B1">>))>>,
                        << >>) }

FirstCategories ==
    { Category("a_b", source, years, fu) :
        source \in {"acs5", "decennial_dhc", "xyz"},
        years \in {None, Scalar(2020), List(<<2010, 2020>>)},
        fu \in FirstFields }

\* the second category, when there is one
SecondCategories ==
    { Category("a", "acs5", None,
               FieldsAndUniverse(<<Entry("b_c", List(<<"B1">>))>>,
                                 <<Entry("default", "U1")>>)),
      Category("a", "decennial_dhc", Scalar(2010),
               FieldsAndUniverse(<<Entry("d", List(<<"B2E">>))>>,
                                 <<Entry("default", NO_DENSITY_OR_RATIO)>>)) }

\* one category of each spelling of the sources, with its years left out,
\* given as one year, given twice over, and given as no year at all
YearSpellings ==
    { Category("a_b", source, years,
               FieldsAndUniverse(<<Entry("c", List(<<"B1">>))>>,
                                 <<Entry("default", "U1")>>)) :
        source \in {"acs5", "acs1", "acs", "dhc", "decennial", "decennial_pl"},
        years \in {None, Scalar(2020), List(<<2020, 2020>>), List(<< >>)} }

Configs ==
    {<<c1>> : c1 \in FirstCategories \cup YearSpellings}
      \cup {<<c1, c2>> : c1 \in FirstCategories, c2 \in SecondCategories}

Levels == {"tract", "places"}

STATE_ID == "25"

\* the units a table holds: all of them, or all but the last
GeoSets == {1..MaxGeo, 1..(MaxGeo - 1)}

\* the spellings of the name of a unit: the survey API gives "a"
NameVariants == {"a", "b"}

\* the cell the survey API gives for a column of a unit
RawCell(request, g, col) ==
    IF col = "GEOID" THEN ToString(g)
    ELSE IF col = "NAME" THEN "N" \o ToString(g) \o "a"
    ELSE col \o "@" \o request.dataset \o ":" \o ToString(request.year) \o "#" \o ToString(g)

\* the table the survey API answers with: the variables requested and GEOID
\* (return_geoid=True), and a NAME column when the API adds one
Response(request, geoids, with_name) ==
    LET cols == request.variables \cup {"GEOID"} \cup (IF with_name THEN {"NAME"} ELSE {})
    IN [cols |-> cols,
        rows |-> {[c \in cols |-> RawCell(request, g, c)] : g \in geoids}]

\* the geometry table
Shapes(geoids, with_name, variant) ==
    LET cols == IF with_name THEN <<"GEOID", "NAME", "geometry">> ELSE <<"GEOID", "geometry">>
    IN [cols |-> cols,
        rows |-> {[c \in Range(cols) |->
                      IF c = "GEOID" THEN ToString(g)
                      ELSE IF c = "NAME" THEN "N" \o ToString(g) \o variant
                      ELSE "geom" \o ToString(g)] : g \in geoids}]

(***************************************************************************)
(* State.                                                                  *)
(***************************************************************************)
VARIABLES
    pc,                    \* where the caller is
    config,                \* the caller's categories object
    calls,                 \* the caller's direct calls of format_categories_dict
    args,                  \* compute_ratios, add_place_names, level
    categories,            \* get_census_fields: the formatted categories
    fields,                \* the fields requested, after (2)
    codes_by_source_year,
    requests,              \* the queries issued, in order
    df_by_source_year,
    final_df_fields,
    join_on,
    df,                    \* the table get_census_fields returns
    raised,                \* the step an exception was raised in, or ""
    df_geo,
    df_geodata             \* the table join_census_and_add_densities returns

vars == <<pc, config, calls, args, categories, fields, codes_by_source_year, requests,
          df_by_source_year, final_df_fields, join_on, df, raised, df_geo, df_geodata>>

NoArgs == [compute_ratios |-> FALSE, add_place_names |-> FALSE, level |-> ""]

Init ==
    /\ pc = "caller"
    /\ config \in Configs
    /\ calls = << >>
    /\ args = NoArgs
    /\ categories = << >>
    /\ fields = << >>
    /\ codes_by_source_year = << >>
    /\ requests = << >>
    /\ df_by_source_year = << >>
    /\ final_df_fields = << >>
    /\ join_on = << >>
    /\ df = NoFrame
    /\ raised = ""
    /\ df_geo = NoFrame
    /\ df_geodata = NoFrame

(***************************************************************************)
(* The caller calls format_categories_dict on its object.                  *)
(***************************************************************************)
FormatCall(inplace) ==
    /\ pc = "caller"
    /\ Len(calls) < MaxCalls
    /\ LET r == format_categories_dict(config, inplace)
       IN /\ calls' = Append(calls, [before |-> config, inplace |-> inplace,
                                     err |-> r.err, alias |-> r.alias,
                                     ret |-> IF r.err THEN << >> ELSE r.ret,
                                     after |-> r.arg])
          /\ config' = r.arg
    /\ UNCHANGED <<pc, args, categories, fields, codes_by_source_year, requests,
                   df_by_source_year, final_df_fields, join_on, df, raised, df_geo,
                   df_geodata>>

(***************************************************************************)
(* get_census_fields on the configuration as written: steps (0) to (3),    *)
(* up to the first query.                                                  *)
(***************************************************************************)
GetCensusFields(compute_ratios, add_place_names, level) ==
    /\ pc = "caller"
    /\ calls = << >>
    /\ args' = [compute_ratios |-> compute_ratios, add_place_names |-> add_place_names,
                level |-> level]
    /\ LET f == format_categories_dict(config, FALSE)
       IN IF f.err
          THEN /\ pc' = "raised"
               /\ raised' = "format"
               /\ UNCHANGED <<categories, fields, codes_by_source_year>>
          ELSE /\ categories' = f.ret
               /\ IF DecomposeRaises(f.ret)
                  THEN /\ pc' = "raised"
                       /\ raised' = "decompose"
                       /\ UNCHANGED <<fields, codes_by_source_year>>
                  ELSE LET fs == AddSuffixes(Decompose(f.ret))
                           codes == GatherCodes(fs, 1, add_place_names, level, << >>)
                       IN /\ fields' = fs
                          /\ codes_by_source_year' = codes
                          /\ pc' = IF Len(codes) = 0 THEN "aggregate" ELSE "query"
                          /\ raised' = ""
    /\ UNCHANGED <<config, calls, requests, df_by_source_year, final_df_fields, join_on,
                   df, df_geo, df_geodata>>

\* (4) the query of the next (source, year) pair
NextRequest ==
    LET e == codes_by_source_year[Len(requests) + 1]
    IN Request(e.k, e.v, args.level, STATE_ID)

Query(geoids, with_name) ==
    /\ pc = "query"
    /\ LET request == NextRequest
           key == codes_by_source_year[Len(requests) + 1].k
       IN /\ with_name \/ "NAME" \notin request.variables
          /\ requests' = Append(requests, request)
          /\ df_by_source_year' =
                 DictSet(df_by_source_year, key, Response(request, geoids, with_name))
          /\ pc' = IF Len(requests) + 1 = Len(codes_by_source_year)
                   THEN "aggregate" ELSE "query"
    /\ UNCHANGED <<config, calls, args, categories, fields, codes_by_source_year,
                   final_df_fields, join_on, df, raised, df_geo, df_geodata>>

\* get_census raises, the pair is given an empty answer and the loop goes on
QueryFailsSkipped ==
    /\ pc = "query"
    /\ requests' = Append(requests, NextRequest)
    /\ df_by_source_year' =
           DictSet(df_by_source_year, codes_by_source_year[Len(requests) + 1].k,
                   Response(NextRequest, {}, FALSE))
    /\ pc' = IF Len(requests) + 1 = Len(codes_by_source_year) THEN "aggregate" ELSE "query"
    /\ raised' = "query"
    /\ UNCHANGED <<config, calls, args, categories, fields, codes_by_source_year,
                   final_df_fields, join_on, df, df_geo, df_geodata>>

\* get_census raises: the exception leaves get_census_fields
QueryFails ==
    /\ pc = "query"
    /\ requests' = Append(requests, NextRequest)
    /\ pc' = "raised"
    /\ raised' = "query"
    /\ UNCHANGED <<config, calls, args, categories, fields, codes_by_source_year,
                   df_by_source_year, final_df_fields, join_on, df, df_geo, df_geodata>>

\* (5) and (6)
Aggregate ==
    /\ pc = "aggregate"
    /\ LET r == AggregateAndMerge(fields, df_by_source_year, args.compute_ratios)
       IN /\ final_df_fields' = r.final
          /\ join_on' = r.on
          /\ df' = r.df
          /\ pc' = IF r.err THEN "raised" ELSE "returned"
          /\ raised' = IF r.err THEN "aggregate" ELSE ""
    /\ UNCHANGED <<config, calls, args, categories, fields, codes_by_source_year, requests,
                   df_by_source_year, df_geo, df_geodata>>

(***************************************************************************)
(* join_census_and_add_densities(shapes, df, categories=config)            *)
(***************************************************************************)
Join(geoids, with_name, variant) ==
    /\ pc = "returned"
    /\ with_name \/ variant = "a"
    /\ LET shapes == Shapes(geoids, with_name, variant)
       IN /\ df_geo' = shapes
          /\ IF DensityFieldsRaises(config)
             THEN /\ pc' = "raised"
                  /\ raised' = "join"
                  /\ UNCHANGED df_geodata
             ELSE /\ df_geodata' = JoinDensities(shapes, df, config)
                  /\ pc' = "joined"
                  /\ raised' = ""
    /\ UNCHANGED <<config, calls, args, categories, fields, codes_by_source_year, requests,
                   df_by_source_year, final_df_fields, join_on, df>>

Next ==
    \/ \E inplace \in BOOLEAN : FormatCall(inplace)
    \/ \E compute_ratios \in BOOLEAN, add_place_names \in BOOLEAN, level \in Levels :
           GetCensusFields(compute_ratios, add_place_names, level)
    \/ \E geoids \in GeoSets, with_name \in BOOLEAN : Query(geoids, with_name)
    \/ QueryFails
    \/ Aggregate
    \/ \E geoids \in GeoSets, with_name \in BOOLEAN, variant \in NameVariants :
           Join(geoids, with_name, variant)

Spec == Init /\ [][Next]_vars

(***************************************************************************)
(* Properties.                                                             *)
(***************************************************************************)
\* get_census_fields was called
Started == pc # "caller"

\* get_census_fields got past steps (0) to (3)
Resolved == Started /\ raised \notin {"format", "decompose"}

\* every query of the run was issued and answered
AllQueried == Resolved /\ pc # "query" /\ raised # "query"

\* get_census_fields returned a table
Returned == pc \in {"returned", "joined"} \/ raised = "join"

\* some source has two different years among the categories
MultiYear(cats) ==
    \E i, j \in 1..Len(cats) :
        /\ cats[i].source = cats[j].source
        /\ \E y1 \in Range(cats[i].years.v), y2 \in Range(cats[j].years.v) : y1 # y2

QualifiedName(cat_name, field_name, year, multi) ==
    (IF multi THEN ToString(year) \o "_" ELSE "") \o cat_name \o "_" \o field_name

\* the names the rule gives the fields of a category
QualifiedNames(raw_cat, out_cat, multi) ==
    {QualifiedName(raw_cat.name, f, y, multi) :
        f \in Keys(raw_cat.fields), y \in Range(out_cat.years.v)}

NamedByRule(before, ret) ==
    /\ Len(ret) = Len(before)
    /\ \A i \in 1..Len(ret) :
           Keys(ret[i].fields) = QualifiedNames(before[i], ret[i], MultiYear(ret))

\* C1: every call of format_categories_dict that returns names the fields of
\* every category by one rule for the whole configuration: year_category_field
\* for each year of the category when some canonical source has more than one
\* distinct year over all categories, category_field otherwise.
C1_NamingRule ==
    /\ \A i \in 1..Len(calls) :
           ~calls[i].err => NamedByRule(calls[i].before, calls[i].ret)
    /\ categories # << >> => NamedByRule(config, categories)

\* a category with the single year 2020 is year-prefixed because the other
\* category of its source has another year
C1_Witness ==
    /\ Len(categories) = 2
    /\ categories[1].years.v = <<2020>>
    /\ categories[2].years.v = <<2010>>
    /\ "2020_a_b_c" \in Keys(categories[1].fields)

\* the position of a column
IndexOf(cols, c) == CHOOSE i \in 1..Len(cols) : cols[i] = c

\* C2: in the table returned with compute_ratios enabled a field has a _ratio
\* column exactly when its universe is a concrete code, and in the joined
\* table it has a _density column exactly when its universe is a concrete
\* code or DENSITY_ONLY.
C2_RatioAndDensityColumns ==
    /\ (Returned /\ args.compute_ratios) =>
           \A k \in 1..Len(fields) :
               RatioName(fields[k].name) \in Range(df.cols)
                   <=> fields[k].universe_code \notin Sentinels
    /\ pc = "joined" =>
           \A k \in 1..Len(fields) :
               DensityName(fields[k].name) \in Range(df_geodata.cols)
                   <=> fields[k].universe_code # NO_DENSITY_OR_RATIO

\* the universe the configuration gives a field
ConfiguredUniverse(cat, field_name) ==
    IF field_name \in Keys(cat.fields_universe)
    THEN DictGet(cat.fields_universe, field_name)
    ELSE DictGet(cat.fields_universe, "default")

LacksUniverse(cat) ==
    \E f \in Keys(cat.fields) :
        f \notin Keys(cat.fields_universe) /\ "default" \notin Keys(cat.fields_universe)

\* the resolved field k is the field f of category i in year y
ResolvesTo(k, i, f, y) ==
    /\ fields[k].name = QualifiedName(config[i].name, f, y, MultiYear(categories))
    /\ fields[k].source = categories[i].source
    /\ fields[k].universe_code \in
           {ConfiguredUniverse(config[i], f), ConfiguredUniverse(config[i], f) \o "E"}

C3_WitnessExplicit ==
    /\ Resolved
    /\ \E k \in 1..Len(fields) :
           fields[k].name = "a_b_b_c" /\ fields[k].universe_code = NO_DENSITY_OR_RATIO
    /\ ConfiguredUniverse(config[1], "c") = "U1"

\* two categories flatten a field to the same name
Collides(cats) ==
    \E i, j \in 1..Len(cats) :
        i # j /\ Keys(cats[i].fields) \cap Keys(cats[j].fields) # {}

\* C4: a configuration whose flattened names collide makes get_census_fields
\* raise before any query is issued.
C4_CollisionFailsFast ==
    (Started /\ categories # << >> /\ Collides(categories)) =>
        pc = "raised" /\ requests = << >>

Recognized(source) ==
    StartsWith(source, "acs") \/ StartsWith(source, "dec") \/ source = "dhc"

\* C5: a category with an unrecognized source makes get_census_fields raise
\* before any query is issued, whether or not it gives its years.
C5_UnrecognizedSourceFailsFast ==
    (Started /\ \E i \in 1..Len(config) : ~Recognized(config[i].source)) =>
        pc = "raised" /\ requests = << >>

\* C5 as amended: a category with an unrecognized source and no years makes
\* get_census_fields raise before any query is issued; when the category gives
\* its years the source is kept as written, and once the queries are issued
\* one of them has that source as its dataset.
C5_UnrecognizedSourceWithoutYears ==
    Started =>
        \A i \in 1..Len(config) :
            ~Recognized(config[i].source) =>
                IF config[i].years.kind = "none"
                THEN pc = "raised" /\ requests = << >>
                ELSE /\ raised # "format"
                     /\ categories[i].source = config[i].source
                     /\ AllQueried =>
                            \E r \in 1..Len(requests) :
                                requests[r].dataset = config[i].source

\* a run that stopped, before any query, at an unrecognized source without years
C5_Witness ==
    /\ pc = "raised" /\ raised = "format" /\ requests = << >>
    /\ ~Recognized(config[1].source)

\* the queries of a run were issued, one of them for the unrecognized source
C5_WitnessPassThrough ==
    /\ AllQueried
    /\ ~Recognized(config[1].source)
    /\ \E r \in 1..Len(requests) : requests[r].dataset = config[1].source

\* C6: every call of format_categories_dict, whatever inplace is, leaves the
\* caller's object unchanged and returns another object, and a second call on
\* the same object gives the result of the first.
C6_PureFunction ==
    /\ \A i \in 1..Len(calls) : calls[i].after = calls[i].before /\ ~calls[i].alias
    /\ \A i \in 1..Len(calls), j \in 1..Len(calls) :
           calls[i].err = calls[j].err /\ calls[i].ret = calls[j].ret

\* C6 as amended: a call with inplace=False leaves the caller's object
\* unchanged and returns another object, and the next call on the same object
\* gives the same result; a call with inplace=True works on the caller's
\* object and returns it.
C6_PureUnlessInplace ==
    /\ \A i \in 1..Len(calls) :
           IF calls[i].inplace
           THEN calls[i].alias /\ (~calls[i].err => calls[i].after = calls[i].ret)
           ELSE calls[i].after = calls[i].before /\ ~calls[i].alias
    /\ \A i \in 1..(Len(calls) - 1) :
           ~calls[i].inplace =>
               calls[i + 1].err = calls[i].err /\ calls[i + 1].ret = calls[i].ret

\* two calls with inplace=False on one object: equal results, object unchanged
C6_Witness ==
    /\ Len(calls) = 2
    /\ ~calls[1].inplace /\ ~calls[1].err
    /\ calls[2].ret = calls[1].ret
    /\ calls[1].ret # calls[1].before
    /\ config = calls[1].before

\* the (source, year) pairs of the resolved fields
Pairs == {<<fields[k].source, fields[k].year>> : k \in 1..Len(fields)}

\* the numerator codes of a field, a scalar being a list of one code
NumeratorCodes(field) == Range(to_list(field.sum_codes).v)

\* the codes the aggregator reads for a field
CodesRead(field) ==
    NumeratorCodes(field)
      \cup (IF args.compute_ratios /\ field.universe_code \notin Sentinels
            THEN {field.universe_code} ELSE {})

\* the variables the claim gives the query of a pair
VariablesOf(key) ==
    UNION {NumeratorCodes(fields[k])
             \cup (IF fields[k].universe_code \in Sentinels THEN {}
                   ELSE {fields[k].universe_code})
           : k \in {x \in 1..Len(fields) : <<fields[x].source, fields[x].year>> = key}}
      \cup (IF args.add_place_names /\ args.level \in {"place", "places"}
            THEN {"NAME"} ELSE {})

\* C7: once all queries are issued there is exactly one per (source, year)
\* pair of the resolved fields; its variables are the numerator codes and the
\* concrete universe codes of the fields of the pair, with NAME only when place
\* names were asked for at place level; no sentinel is requested and every
\* code read for a field was requested for its pair.
C7_OneQueryPerPair ==
    AllQueried =>
        /\ Len(requests) = Cardinality(Pairs)
        /\ \A key \in Pairs :
               \E r \in 1..Len(requests) :
                   /\ <<requests[r].dataset, requests[r].year>> = key
                   /\ requests[r].variables = VariablesOf(key)
        /\ \A r \in 1..Len(requests) : requests[r].variables \cap Sentinels = {}
        /\ \A k \in 1..Len(fields) :
               \E r \in 1..Len(requests) :
                   /\ <<requests[r].dataset, requests[r].year>> =
                          <<fields[k].source, fields[k].year>>
                   /\ CodesRead(fields[k]) \subseteq requests[r].variables

\* the first field of the name
FirstField(name) == CHOOSE k \in 1..Len(fields) :
                        fields[k].name = name /\ \A x \in 1..(k - 1) : fields[x].name # name

\* C8: the columns of the table returned are all different; GEOID is the
\* first, NAME the second when there is one; the fields follow in the order
\* they were first introduced, each _ratio column right after the column of
\* its field.
C8_ColumnOrder ==
    Returned =>
        LET cols == df.cols
            names == {fields[k].name : k \in 1..Len(fields)}
        IN /\ \A i, j \in 1..Len(cols) : i # j => cols[i] # cols[j]
           /\ cols[1] = "GEOID"
           /\ "NAME" \in Range(cols) => cols[2] = "NAME"
           /\ Range(cols) \subseteq
                  {"GEOID", "NAME"} \cup names \cup {RatioName(n) : n \in names}
           /\ names \subseteq Range(cols)
           /\ \A n1, n2 \in names :
                  FirstField(n1) < FirstField(n2) => IndexOf(cols, n1) < IndexOf(cols, n2)
           /\ \A n \in names :
                  RatioName(n) \in Range(cols) =>
                      IndexOf(cols, RatioName(n)) = IndexOf(cols, n) + 1

GeoidsOf(rows) == {r["GEOID"] : r \in rows}

\* the columns a side of the join brings that are no join key
OwnColumns(side, on) == Range(side.cols) \ Range(on)

\* C9: the table get_census_fields returns has every GEOID of every answer,
\* and the table join_census_and_add_densities returns has every GEOID of the
\* geometry table and of the census table; a unit that only one side has is
\* undefined in the columns of the other side.
C9_JoinsKeepAllKeys ==
    /\ Returned =>
           \A p \in 1..Len(df_by_source_year) :
               GeoidsOf(df_by_source_year[p].v.rows) \subseteq GeoidsOf(df.rows)
    /\ pc = "joined" =>
           LET on == GeoJoinOn(df_geo, df)
           IN /\ GeoidsOf(df_geo.rows) \cup GeoidsOf(df.rows) \subseteq GeoidsOf(df_geodata.rows)
              /\ \A r \in df_geodata.rows :
                     /\ r["GEOID"] \notin GeoidsOf(df.rows) =>
                            \A c \in OwnColumns(df, on) :
                                /\ r[c] = NaN
                                /\ DensityName(c) \in Range(df_geodata.cols) =>
                                       r[DensityName(c)] = NaN
                     /\ r["GEOID"] \notin GeoidsOf(df_geo.rows) =>
                            \A c \in OwnColumns(df_geo, on) : r[c] = NaN

\* two answers with different units, and a geometry table that lacks a unit
\* of the census table
C9_Witness ==
    /\ pc = "joined"
    /\ Len(df_by_source_year) = 2
    /\ GeoidsOf(df_by_source_year[1].v.rows) # GeoidsOf(df_by_source_year[2].v.rows)
    /\ GeoidsOf(df_geo.rows) # GeoidsOf(df.rows)
    /\ \E r \in df_geodata.rows : r["geometry"] = NaN

\* C10: in the joined table every unit that the census table and the geometry
\* table both have has, in each _density column, the unit's value of the
\* column divided by the area of the unit's geometry, with or without a NAME
\* column in both tables.
C10_DensityAlignedByGeoid ==
    pc = "joined" =>
        \A g \in GeoidsOf(df.rows) \cap GeoidsOf(df_geo.rows) :
            \A c \in Range(df.cols) :
                DensityName(c) \in Range(df_geodata.cols) =>
                    \A r \in {x \in df_geodata.rows : x["GEOID"] = g} :
                        \E rc \in df.rows, rg \in df_geo.rows :
                            /\ rc["GEOID"] = g
                            /\ rg["GEOID"] = g
                            /\ r[DensityName(c)] = Div(rc[c], Area(rg["geometry"]))


\* C11: a query that gives no answer ends the run: the step leaves
\* get_census_fields with the exception of the query, without an answer for
\* the pair and without a table; after it no query is issued, no answer is
\* added and nothing is returned.  A query that is answered adds the answer
\* of its pair and raises nothing.
C11_QueryFailureAborts ==
    [][/\ pc = "query" =>
              /\ requests' = Append(requests, NextRequest)
              /\ \/ /\ raised' = ""
                    /\ Len(df_by_source_year') = Len(df_by_source_year) + 1
                    /\ pc' \in {"query", "aggregate"}
                 \/ /\ raised' = "query"
                    /\ pc' = "raised"
                    /\ df_by_source_year' = df_by_source_year
                    /\ df' = NoFrame
       /\ raised = "query" =>
              /\ pc' = "raised"
              /\ requests' = requests
              /\ df_by_source_year' = df_by_source_year
              /\ df' = NoFrame
              /\ df_geodata' = NoFrame]_vars

\* the second of three queries failed after the first was answered
C11_Witness ==
    /\ pc = "raised" /\ raised = "query"
    /\ Len(df_by_source_year) = 1
    /\ Len(requests) = 2
    /\ Len(codes_by_source_year) = 3
    /\ df = NoFrame

\* the (category, field, year) triples of the configuration
Triples ==
    UNION {{<<i, f, y>> : f \in Keys(config[i].fields), y \in Range(categories[i].years.v)}
           : i \in 1..Len(config)}

\* C12: the resolved fields are one per (category, field, year of the
\* category): there are as many as triples, no name occurs in two of them, and
\* a field whose name carries a year belongs to the pair of that year.
C12_OneFieldPerYear ==
    (Resolved /\ ~Collides(categories)) =>
        /\ Len(fields) = Cardinality(Triples)
        /\ \A k1, k2 \in 1..Len(fields) : fields[k1].name = fields[k2].name => k1 = k2
        /\ \A k \in 1..Len(fields) :
               MultiYear(categories) =>
                   StartsWith(fields[k].name, ToString(fields[k].year) \o "_")

\* the configuration is one category of one year whose field has a scalar
\* numerator
ScalarNumerator ==
    /\ Len(config) = 1
    /\ Len(config[1].fields) = 1
    /\ config[1].fields[1].v.kind = "scalar"
    /\ categories # << >> => Len(categories[1].years.v) = 1

\* C13: a scalar numerator is the list of that one code, whatever the source:
\* the variables gathered for the pair of the field hold the code whole, and
\* the run, once its query is answered, returns a table whose column of the
\* field holds the value of the column of the code.
C13_ScalarNumeratorAsList ==
    ScalarNumerator =>
        /\ Resolved =>
               /\ fields[1].sum_codes.kind = "list"
               /\ NumeratorCodes(fields[1]) \subseteq codes_by_source_year[1].v
        /\ (AllQueried /\ pc # "aggregate") => Returned
        /\ Returned =>
               \A r \in df.rows :
                   \E raw \in df_by_source_year[1].v.rows :
                       /\ raw["GEOID"] = r["GEOID"]
                       /\ \A c \in NumeratorCodes(fields[1]) : r[fields[1].name] = raw[c]

\* every answer has a NAME column
NameInEvery ==
    \A p \in 1..Len(df_by_source_year) : "NAME" \in df_by_source_year[p].v.cols

\* some answer has a NAME column
NameInSome ==
    \E p \in 1..Len(df_by_source_year) : "NAME" \in df_by_source_year[p].v.cols

\* C14: once the working tables are built, the key they are merged on is
\* [GEOID, NAME] when every working table has a NAME column and [GEOID]
\* otherwise.
C14_NameKeyOnlyWhenUniversal ==
    join_on # << >> =>
        join_on = IF NameInEvery THEN <<"GEOID", "NAME">> ELSE <<"GEOID">>

\* the code with the letter of the estimate columns, appended unless it is there
WithE(c) == IF EndsWith(c, "E") THEN c ELSE c \o "E"

\* C15: the field of a source that starts with "acs" has every numerator code
\* and its universe code, sentinels apart, ending in "E": the code as
\* configured when that ends in "E", the code followed by "E" otherwise;
\* its sentinel is as configured; the rule applied again changes nothing; the
\* field of any other source has its codes as configured.
C15_EstimateSuffix ==
    Resolved =>
        LET configured == Decompose(categories)
        IN /\ Len(fields) = Len(configured)
           /\ \A k \in 1..Len(fields) :
                  LET was == to_list(configured[k].sum_codes).v
                      now == to_list(fields[k].sum_codes).v
                  IN IF StartsWith(fields[k].source, "acs")
                     THEN /\ Len(now) = Len(was)
                          /\ \A i \in 1..Len(now) :
                                 was[i] \notin Sentinels =>
                                     /\ EndsWith(now[i], "E")
                                     /\ now[i] = WithE(was[i])
                          /\ fields[k].universe_code =
                                 IF configured[k].universe_code \in Sentinels
                                 THEN configured[k].universe_code
                                 ELSE WithE(configured[k].universe_code)
                          /\ AddSuffix(fields[k]) = fields[k]
                     ELSE fields[k] = configured[k]

\* a survey field with one code that already ends in "E", one that does not
\* and a sentinel universe, one with a universe code, and a decennial field
C15_Witness ==
    /\ Resolved
    /\ \E k \in 1..Len(fields) :
           /\ StartsWith(fields[k].source, "acs")
           /\ fields[k].sum_codes.v = <<"B1E", "B2E">>
           /\ fields[k].universe_code = DENSITY_ONLY
    /\ \E k \in 1..Len(fields) :
           /\ StartsWith(fields[k].source, "acs")
           /\ fields[k].universe_code = "U1E"
    /\ \E k \in 1..Len(fields) :
           /\ StartsWith(fields[k].source, "dec")
           /\ fields[k].sum_codes.v = <<"B2E">>

\* the years the claim gives a category: those configured, a single year as
\* a list of one, and the entry of the latest-year table when none is
YearsOf(raw_cat, out_cat) ==
    IF raw_cat.years.kind = "none"
    THEN <<DictGet(CENSUS_LATEST_YEARS, out_cat.source)>>
    ELSE to_list(raw_cat.years).v

\* the years of every category of a recognized source are a list that is not
\* empty, holds no year twice and is the one the claim gives
YearsResolved(before, ret) ==
    \A j \in 1..Len(ret) :
        Recognized(before[j].source) =>
            LET years == ret[j].years.v
            IN /\ ret[j].years.kind = "list"
               /\ Len(years) > 0
               /\ \A a, b \in 1..Len(years) : years[a] = years[b] => a = b
               /\ years = YearsOf(before[j], ret[j])

\* C16: every call of format_categories_dict that returns leaves every
\* category of a recognized source with a non-empty list of years without
\* duplicates: the years configured, or the latest year of its canonical
\* source when none is configured.
C16_YearsResolved ==
    /\ \A i \in 1..Len(calls) :
           ~calls[i].err => YearsResolved(calls[i].before, calls[i].ret)
    /\ categories # << >> => YearsResolved(config, categories)
====
